---- MODULE Spec2Model ----
(***************************************************************************)
(* pymcmc/_gpy_model.py: GPyModel, the adapter that caches the state of a  *)
(* wrapped GPy model (log-likelihood, log-prior, their gradients and the   *)
(* parameter vector) in the dictionary self._state.                        *)
(*                                                                         *)
(* Python objects are modelled by reference: numpy arrays live in `heap`,  *)
(* snapshot dictionaries in `dicts`, and attributes hold indices into      *)
(* them, so that aliasing (a snapshot shared through __getstate__, an      *)
(* array stored without .copy()) is visible.  Unreachable objects are      *)
(* dropped and the live ones renumbered after every operation.             *)
(***************************************************************************)
EXTENDS Integers, Sequences, FiniteSets, TLC

\* Number of transformed parameters of the wrapped model.
NumParams == 3
\* Parameter vectors the caller proposes: Proposal(0, n) .. Proposal(MaxProposal, n).
MaxProposal == 1

None == 0
Val == {0, 1}
Adapters == {1, 2}
Proposal(k, n) == [i \in 1..n |-> IF i <= k THEN 1 ELSE 0]
ProposalsOf(n) == {Proposal(k, n) : k \in 0..MaxProposal}

VARIABLES
    heap,                    \* numpy array objects: array id -> contents
    dicts,                   \* dict objects: dict id -> snapshot dictionary
    optimizer_array,         \* model.optimizer_array: id of the live array
    priors,                  \* whether the wrapped model carries priors
    num_params_transformed,  \* model.num_params_transformed()
    names,                   \* model._get_param_names()
    binds_reference,         \* the model's optimizer_array setter keeps the
                             \* caller's object (TRUE) or copies into its own
    constructed,             \* adapter -> __init__ has returned
    _compute_grad,           \* adapter -> self._compute_grad
    _state,                  \* adapter -> id of the dict self._state
    held,                    \* the snapshot the caller got from __getstate__
    value,                   \* the array object the caller last assigned to params
    calls,                   \* wrapped-model routines invoked by the last operation
    result,                  \* what the last operation returned or raised
    raised_call,             \* index in calls of the call that raised, or 0
    detour                   \* since __getstate__, a write of another vector completed

vars == <<heap, dicts, optimizer_array, priors, num_params_transformed,
          names, binds_reference, constructed, _compute_grad, _state,
          held, value, calls, result, raised_call, detour>>

model_vars == <<priors, num_params_transformed, names, binds_reference>>

----------------------------------------------------------------------------
(* The wrapped model: a black box whose answers depend on its parameters   *)
(* and priors only.                                                        *)

RECURSIVE SumTo(_, _)
SumTo(f, n) == IF n = 0 THEN 0 ELSE f[n] + SumTo(f, n - 1)

Names(n) == [i \in 1..n |-> i]

model_log_likelihood(v) ==
    0 - SumTo([i \in 1..Len(v) |-> (v[i] - i) * (v[i] - i)], Len(v))

model_log_prior(v, p) ==
    IF p THEN 0 - SumTo([i \in 1..Len(v) |-> v[i] * v[i]], Len(v)) ELSE 0

_log_likelihood_gradients(v) == [i \in 1..Len(v) |-> 0 - 2 * (v[i] - i)]

\* Without priors GPy reports the float 0., with priors an array.
_log_prior_gradients(v, p) ==
    IF p THEN [kind |-> "ndarray", v |-> [i \in 1..Len(v) |-> 0 - 2 * v[i]]]
         ELSE [kind |-> "float", v |-> <<0>>]

\* The chain rule of the parameter transform, at the live parameters v.
_transform_gradients(g, v) ==
    [i \in 1..Len(g) |-> g[i] * (IF i <= Len(v) THEN v[i] + 1 ELSE 1)]

Call(fn, arg) == [fn |-> fn, arg |-> arg]

\* assign_priors_to_gpy_model(model): gives the model its default priors.
assign_priors_to_gpy_model(p) == TRUE

----------------------------------------------------------------------------
(* Objects.  Store keeps the objects reachable from the attributes and the *)
(* caller's handles, numbered in the order they are reached.               *)

RECURSIVE Uniq(_)
Uniq(s) ==
    IF s = <<>> THEN <<>>
    ELSE LET r == Uniq(SubSeq(s, 1, Len(s) - 1))
             x == s[Len(s)]
         IN IF x = None \/ (\E i \in 1..Len(r) : r[i] = x) THEN r
            ELSE Append(r, x)

Renum(u, x) == IF x = None THEN None ELSE CHOOSE i \in 1..Len(u) : u[i] = x

HasKey(d, key) == key \in DOMAIN d

Store(st, hd, ds, oa, val, hp) ==
    LET du == Uniq(<<st[1], st[2], hd>>)
        pref(i) == IF HasKey(ds[du[i]], "params") THEN ds[du[i]]["params"]
                   ELSE None
        au == Uniq(<<oa, val>> \o [i \in 1..Len(du) |-> pref(i)])
    IN /\ _state' = [a \in Adapters |-> Renum(du, st[a])]
       /\ held' = Renum(du, hd)
       /\ dicts' = [i \in 1..Len(du) |->
                      LET d == ds[du[i]]
                      IN IF HasKey(d, "params")
                         THEN [d EXCEPT !["params"] = Renum(au, @)]
                         ELSE d]
       /\ optimizer_array' = Renum(au, oa)
       /\ value' = Renum(au, val)
       /\ heap' = [i \in 1..Len(au) |-> hp[au[i]]]

\* Mutant: the array is stored without .copy().
no_copy(hp, ref) == [heap |-> hp, ref |-> ref]

\* self.model.optimizer_array.copy(): a new array object with the contents.
ndarray_copy(hp, ref) == [heap |-> Append(hp, hp[ref]), ref |-> Len(hp) + 1]

\* Mutant: the assignment to model.optimizer_array is lost.
set_nothing(hp, oa, V, binds) ==
    [heap |-> Append(hp, V), oa |-> oa, value |-> Len(hp) + 1]

\* self.model.optimizer_array = value, for a caller's new array holding V:
\* the model keeps that object, or copies its contents into its own array.
set_optimizer_array(hp, oa, V, binds) ==
    LET hp0 == Append(hp, V)
    IN [heap |-> IF binds THEN hp0 ELSE [hp0 EXCEPT ![oa] = V],
        oa |-> IF binds THEN Len(hp0) ELSE oa,
        value |-> Len(hp0)]

----------------------------------------------------------------------------
(* GPyModel._eval_state.                                                   *)

\* Mutant: np.array([g]), without the repetition.
broadcast_one(g, n) == IF g.kind = "float" THEN <<g.v[1]>> ELSE g.v

\* Mutant: the prior is evaluated as if no priors were assigned.
eval_log_prior_flat(v, p) == model_log_prior(v, FALSE)

\* self._state['log_prior'] = self.model.log_prior()
eval_log_prior(v, p) == model_log_prior(v, p)

\* self._state['log_likelihood'] = self.model.log_likelihood()
eval_log_likelihood(v) == model_log_likelihood(v)

\* g = np.array([g] * self.num_params) when g is a float.
broadcast(g, n) == IF g.kind = "float" THEN [i \in 1..n |-> g.v[1]] ELSE g.v

\* Mutant: the gradient routines are called whatever self._compute_grad is.
eval_gradients_always(cg, g1, g2, n) ==
    <<Call("_log_likelihood_gradients", <<>>),
      Call("_transform_gradients", g1),
      Call("_log_prior_gradients", <<>>),
      Call("_transform_gradients", g2.v)>>

\* The gradient entries of one evaluation: the routines called, in order.
eval_gradients(cg, g1, g2, n) ==
    IF ~cg THEN <<>>
    ELSE <<Call("_log_likelihood_gradients", <<>>),
           Call("_transform_gradients", g1),
           Call("_log_prior_gradients", <<>>)>>
         \o (IF g2.kind = "float"
             THEN <<Call("num_params_transformed", <<>>)>> ELSE <<>>)
         \o <<Call("_transform_gradients", broadcast(g2, n))>>

\* Mutant: the evaluation fills the dictionary self._state is bound to already.
fill_bound_dict(st, ds, a, d) ==
    IF st[a] = None
    THEN [st |-> [st EXCEPT ![a] = Len(ds) + 1], ds |-> Append(ds, d)]
    ELSE [st |-> st, ds |-> [ds EXCEPT ![st[a]] = d @@ ds[st[a]]]]

\* self._state = {}: the fields d go into a new dictionary object.
new_state_dict(st, ds, a, d) ==
    [st |-> [st EXCEPT ![a] = Len(ds) + 1], ds |-> Append(ds, d)]

\* Mutant: a failing routine is called once more before the error surfaces.
invoked_retry(plan, failAt) ==
    IF failAt = 0 \/ failAt > Len(plan) THEN plan
    ELSE Append(SubSeq(plan, 1, failAt), plan[failAt])

\* No try/except anywhere: the calls made are those up to the one that raises.
invoked(plan, failAt) ==
    IF failAt = 0 \/ failAt > Len(plan) THEN plan
    ELSE SubSeq(plan, 1, failAt)

\* One run of _eval_state on the model (array oa of heap hp, priors p, n
\* transformed parameters) with self._compute_grad = cg.  failAt numbers the
\* wrapped-model call that raises (0: none does).  dict is the dictionary
\* self._state is left bound to, calls the routines invoked.
_eval_state(cg, hp, oa, p, n, failAt) ==
    LET v == hp[oa]
        g1 == _log_likelihood_gradients(v)
        g2 == _log_prior_gradients(v, p)
        plan == <<Call("log_likelihood", <<>>), Call("log_prior", <<>>)>>
                \o eval_gradients(cg, g1, g2, n)
                \o <<Call("optimizer_array", <<>>)>>
        last == Len(plan)
        done(k) == failAt = 0 \/ k < failAt
        cp == ndarray_copy(hp, oa)
        d == (IF done(1) THEN "log_likelihood" :> eval_log_likelihood(v)
              ELSE <<>>)
             @@ (IF done(2) THEN "log_prior" :> eval_log_prior(v, p)
                 ELSE <<>>)
             @@ (IF cg /\ done(4)
                 THEN "grad_log_likelihood" :> _transform_gradients(g1, v)
                 ELSE <<>>)
             @@ (IF cg /\ done(last - 1)
                 THEN "grad_log_prior"
                      :> _transform_gradients(plan[last - 1].arg, v)
                 ELSE <<>>)
             @@ (IF done(last) THEN "params" :> cp.ref ELSE <<>>)
    IN [dict |-> d,
        heap |-> IF done(last) THEN cp.heap ELSE hp,
        calls |-> invoked(plan, failAt),
        raised |-> failAt # 0,
        ncalls |-> last]

Returned(op, a, out, val) == [op |-> op, a |-> a, out |-> out, val |-> val]

----------------------------------------------------------------------------
(* GPyModel.__init__.                                                      *)

\* Mutant: the state is evaluated first and the priors are assigned after.
__init___eval_first(a, compute_grad, assign_priors, failAt) ==
    /\ ~constructed[a]
    /\ failAt = 0
    /\ LET e == _eval_state(compute_grad, heap, optimizer_array, priors,
                            num_params_transformed, 0)
       IN /\ priors' = IF assign_priors
                        THEN assign_priors_to_gpy_model(priors) ELSE priors
          /\ constructed' = [constructed EXCEPT ![a] = TRUE]
          /\ _compute_grad' = [_compute_grad EXCEPT ![a] = compute_grad]
          /\ Store([_state EXCEPT ![a] = Len(dicts) + 1], held,
                   Append(dicts, e.dict), optimizer_array, value, e.heap)
          /\ calls' = e.calls
                      \o (IF assign_priors
                          THEN <<Call("assign_priors_to_gpy_model", <<>>)>>
                          ELSE <<>>)
          /\ result' = Returned("__init__", a, "ok",
                                <<compute_grad, assign_priors>>)
          /\ raised_call' = 0
    /\ UNCHANGED <<num_params_transformed, names, binds_reference, detour>>

__init__(a, compute_grad, assign_priors, failAt) ==
    /\ ~constructed[a]
    /\ LET pre == IF assign_priors
                  THEN <<Call("assign_priors_to_gpy_model", <<>>)>> ELSE <<>>
           k == Len(pre)
           assignRaised == assign_priors /\ failAt = 1
           p1 == IF assign_priors /\ ~assignRaised
                 THEN assign_priors_to_gpy_model(priors) ELSE priors
           e == _eval_state(compute_grad, heap, optimizer_array, p1,
                            num_params_transformed,
                            IF failAt = 0 \/ assignRaised THEN 0 ELSE failAt - k)
           ok == ~assignRaised /\ ~e.raised
       IN /\ failAt <= k + e.ncalls
          /\ priors' = p1
          /\ constructed' = [constructed EXCEPT ![a] = ok]
          /\ _compute_grad' = [_compute_grad EXCEPT ![a] = ok /\ compute_grad]
          /\ IF ok
             THEN LET b == new_state_dict(_state, dicts, a, e.dict)
                  IN Store(b.st, held, b.ds, optimizer_array, value, e.heap)
             ELSE Store(_state, held, dicts, optimizer_array, value, heap)
          /\ calls' = IF assignRaised THEN pre ELSE pre \o e.calls
          /\ result' = Returned("__init__", a, IF ok THEN "ok" ELSE "raised",
                                <<compute_grad, assign_priors>>)
          /\ raised_call' = failAt
    /\ UNCHANGED <<num_params_transformed, names, binds_reference, detour>>

----------------------------------------------------------------------------
(* The params setter.                                                      *)

\* Mutant: the setter returns without calling self._eval_state().
params_setter_no_eval(a, V, failAt) ==
    /\ constructed[a]
    /\ failAt <= 1
    /\ LET w == set_optimizer_array(heap, optimizer_array, V, binds_reference)
       IN /\ IF failAt = 1
             THEN Store(_state, held, dicts, optimizer_array, w.value,
                        Append(heap, V))
             ELSE Store(_state, held, dicts, w.oa, w.value, w.heap)
          /\ calls' = <<Call("optimizer_array.setter", V)>>
          /\ result' = Returned("params.setter", a,
                                IF failAt = 0 THEN "ok" ELSE "raised", V)
          /\ raised_call' = failAt
    /\ UNCHANGED <<model_vars, constructed, _compute_grad, detour>>

\* Mutant: the state is evaluated first and the array is assigned after.
params_setter_eval_first(a, V, failAt) ==
    /\ constructed[a]
    /\ failAt = 0
    /\ LET e == _eval_state(_compute_grad[a], heap, optimizer_array, priors,
                            num_params_transformed, 0)
           w == set_optimizer_array(e.heap, optimizer_array, V,
                                    binds_reference)
           b == new_state_dict(_state, dicts, a, e.dict)
       IN /\ Store(b.st, held, b.ds, w.oa, w.value, w.heap)
          /\ calls' = Append(e.calls, Call("optimizer_array.setter", V))
          /\ result' = Returned("params.setter", a, "ok", V)
          /\ raised_call' = 0
    /\ UNCHANGED <<model_vars, constructed, _compute_grad, detour>>

params_setter(a, V, failAt) ==
    /\ constructed[a]
    /\ LET w == set_optimizer_array(heap, optimizer_array, V, binds_reference)
           setRaised == failAt = 1
           e == _eval_state(_compute_grad[a], w.heap, w.oa, priors,
                            num_params_transformed,
                            IF failAt <= 1 THEN 0 ELSE failAt - 1)
           ok == ~setRaised /\ ~e.raised
       IN /\ failAt <= 1 + e.ncalls
          /\ IF setRaised
             THEN Store(_state, held, dicts, optimizer_array, w.value,
                        Append(heap, V))
             ELSE LET b == new_state_dict(_state, dicts, a, e.dict)
                  IN Store(b.st, held, b.ds, w.oa, w.value, e.heap)
          /\ calls' = <<Call("optimizer_array.setter", V)>>
                      \o (IF setRaised THEN <<>> ELSE e.calls)
          /\ result' = Returned("params.setter", a,
                                IF ok THEN "ok" ELSE "raised", V)
          /\ raised_call' = failAt
          /\ detour' = (detour \/ (/\ ok
                                   /\ held # None
                                   /\ HasKey(dicts[held], "params")
                                   /\ heap[dicts[held]["params"]] # V))
    /\ UNCHANGED <<model_vars, constructed, _compute_grad>>

----------------------------------------------------------------------------
(* The read-only properties.  Each gives what the caller gets (out, val)   *)
(* and the wrapped-model routines the read invokes.                        *)

Got(out, val, cs) == [out |-> out, val |-> val, calls |-> cs]

\* Mutant: the getter asks the wrapped model again.
log_likelihood_recomputed(a) ==
    Got("ok", <<model_log_likelihood(heap[optimizer_array])>>,
        <<Call("log_likelihood", <<>>)>>)

log_likelihood(a) ==
    LET d == dicts[_state[a]]
    IN IF HasKey(d, "log_likelihood")
       THEN Got("ok", <<d["log_likelihood"]>>, <<>>)
       ELSE Got("KeyError", <<>>, <<>>)

\* Mutant: the getter reads the wrapped model instead of the snapshot.
log_prior_recomputed(a) ==
    Got("ok", <<model_log_prior(heap[optimizer_array], priors)>>,
        <<Call("log_prior", <<>>)>>)

log_prior(a) ==
    LET d == dicts[_state[a]]
    IN IF HasKey(d, "log_prior") THEN Got("ok", <<d["log_prior"]>>, <<>>)
       ELSE Got("KeyError", <<>>, <<>>)

\* Mutant: the count is taken from the snapshot's params.
num_params_cached(a) ==
    LET d == dicts[_state[a]]
    IN Got("ok",
           <<IF HasKey(d, "params") THEN Len(heap[d["params"]]) ELSE 0>>,
           <<>>)

num_params(a) ==
    Got("ok", <<num_params_transformed>>,
        <<Call("num_params_transformed", <<>>)>>)

params(a) ==
    LET d == dicts[_state[a]]
    IN IF HasKey(d, "params") THEN Got("ok", heap[d["params"]], <<>>)
       ELSE Got("KeyError", <<>>, <<>>)

param_names(a) == Got("ok", names, <<Call("_get_param_names", <<>>)>>)

grad_log_likelihood(a) ==
    LET d == dicts[_state[a]]
    IN IF HasKey(d, "grad_log_likelihood")
       THEN Got("ok", d["grad_log_likelihood"], <<>>)
       ELSE Got("KeyError", <<>>, <<>>)

grad_log_prior(a) ==
    LET d == dicts[_state[a]]
    IN IF HasKey(d, "grad_log_prior") THEN Got("ok", d["grad_log_prior"], <<>>)
       ELSE Got("KeyError", <<>>, <<>>)

Props == {"log_likelihood", "log_prior", "num_params", "params",
          "param_names", "grad_log_likelihood", "grad_log_prior"}

Property(a, prop) ==
    CASE prop = "log_likelihood" -> log_likelihood(a)
      [] prop = "log_prior" -> log_prior(a)
      [] prop = "num_params" -> num_params(a)
      [] prop = "params" -> params(a)
      [] prop = "param_names" -> param_names(a)
      [] prop = "grad_log_likelihood" -> grad_log_likelihood(a)
      [] prop = "grad_log_prior" -> grad_log_prior(a)

\* A read hands Property(a, prop) to the caller and assigns nothing.
Get(a, prop) ==
    /\ constructed[a]
    /\ Property(a, prop).out \in {"ok", "KeyError"}
    /\ UNCHANGED vars

----------------------------------------------------------------------------
(* __getstate__ and __setstate__.                                          *)

\* Mutant: the assignment to self._state is lost.
__setstate___dropped(a, state) == _state

\* return self._state
__getstate__(a) == _state[a]

\* self._state = state
__setstate__(a, state) == [_state EXCEPT ![a] = state]

GetState(a) ==
    /\ constructed[a]
    /\ Store(_state, __getstate__(a), dicts, optimizer_array, value, heap)
    /\ calls' = <<>>
    /\ result' = Returned("__getstate__", a, "ok", <<>>)
    /\ raised_call' = 0
    /\ detour' = FALSE
    /\ UNCHANGED <<model_vars, constructed, _compute_grad>>

\* Mutant: __setstate__ also writes the snapshot's params back to the model.
SetState_restoring(a) ==
    /\ constructed[a]
    /\ held # None
    /\ Store(__setstate__(a, held), held, dicts, optimizer_array, value,
             IF HasKey(dicts[held], "params")
             THEN [heap EXCEPT ![optimizer_array] = heap[dicts[held]["params"]]]
             ELSE heap)
    /\ calls' = <<>>
    /\ result' = Returned("__setstate__", a, "ok", <<>>)
    /\ raised_call' = 0
    /\ UNCHANGED <<model_vars, constructed, _compute_grad, detour>>

\* The caller hands back the snapshot it holds.
SetState(a) ==
    /\ constructed[a]
    /\ held # None
    /\ Store(__setstate__(a, held), held, dicts, optimizer_array, value, heap)
    /\ calls' = <<>>
    /\ result' = Returned("__setstate__", a, "ok", <<>>)
    /\ raised_call' = 0
    /\ UNCHANGED <<model_vars, constructed, _compute_grad, detour>>

----------------------------------------------------------------------------
(* Code outside the adapter that holds the same arrays: it changes an      *)
(* entry of the model's live array, or of the array it assigned to params. *)

MutateOptimizerArray(i, x) ==
    /\ i \in DOMAIN heap[optimizer_array]
    /\ heap[optimizer_array][i] # x
    /\ heap' = [heap EXCEPT ![optimizer_array][i] = x]
    /\ calls' = <<>>
    /\ result' = Returned("external", None, "ok", <<>>)
    /\ raised_call' = 0
    /\ UNCHANGED <<dicts, optimizer_array, model_vars, constructed,
                   _compute_grad, _state, held, value, detour>>

MutateCallerVector(i, x) ==
    /\ value # None
    /\ i \in DOMAIN heap[value]
    /\ heap[value][i] # x
    /\ heap' = [heap EXCEPT ![value][i] = x]
    /\ calls' = <<>>
    /\ result' = Returned("external", None, "ok", <<>>)
    /\ raised_call' = 0
    /\ UNCHANGED <<dicts, optimizer_array, model_vars, constructed,
                   _compute_grad, _state, held, value, detour>>

\* The names the wrapped model reports after its parameters were renamed.
Renamed(n) == [i \in 1..n |-> 0 - i]
\* The parameter counts the wrapped model can be brought to.
ParamCounts == (NumParams - 1)..NumParams

\* Code outside the adapter re-parameterises the wrapped model (fixes or
\* frees a parameter, renames parameters): the model then reports n
\* transformed parameters named nm, and when the count changed its
\* optimizer array is a new array of that length.
Reparameterize(n, nm) ==
    /\ <<n, nm>> # <<num_params_transformed, names>>
    /\ num_params_transformed' = n
    /\ names' = nm
    /\ LET v == heap[optimizer_array]
       IN IF n = Len(v)
          THEN Store(_state, held, dicts, optimizer_array, value, heap)
          ELSE Store(_state, held, dicts, Len(heap) + 1, value,
                     Append(heap, [i \in 1..n |->
                                      IF i <= Len(v) THEN v[i] ELSE 0]))
    /\ calls' = <<>>
    /\ result' = Returned("external", None, "ok", <<>>)
    /\ raised_call' = 0
    /\ UNCHANGED <<priors, binds_reference, constructed, _compute_grad,
                   detour>>

----------------------------------------------------------------------------
(* Specifications.                                                         *)

Init ==
    /\ heap \in {<<v>> : v \in ProposalsOf(NumParams)}
    /\ num_params_transformed = NumParams
    /\ names = Names(NumParams)
    /\ dicts = <<>>
    /\ optimizer_array = 1
    /\ priors \in BOOLEAN
    /\ binds_reference \in BOOLEAN
    /\ constructed = [a \in Adapters |-> FALSE]
    /\ _compute_grad = [a \in Adapters |-> FALSE]
    /\ _state = [a \in Adapters |-> None]
    /\ held = None
    /\ value = None
    /\ calls = <<>>
    /\ result = Returned("none", None, "ok", <<>>)
    /\ raised_call = 0
    /\ detour = FALSE

\* Which wrapped-model call of an operation raises: none (0), or the k-th.
Fails == 0..(1 + 8)
NoFail == {0}
Proposals == ProposalsOf(Len(heap[optimizer_array]))

Construct(a, F) ==
    \E cg \in BOOLEAN, ap \in BOOLEAN, f \in F : __init__(a, cg, ap, f)

SetParams(a, F) ==
    \E V \in Proposals, f \in F : params_setter(a, V, f)

Read(a) == \E prop \in Props : Get(a, prop)

\* One adapter that owns its wrapped model; any wrapped-model call may raise.
Next ==
    \/ Construct(1, Fails)
    \/ SetParams(1, Fails)
    \/ Read(1)
    \/ GetState(1)
    \/ SetState(1)

Spec == Init /\ [][Next]_vars

\* Two adapters over the same wrapped model, exchanging snapshots.
NextShared ==
    \E a \in Adapters :
        \/ Construct(a, NoFail)
        \/ SetParams(a, NoFail)
        \/ Read(a)
        \/ GetState(a)
        \/ SetState(a)

SpecShared == Init /\ [][NextShared]_vars

\* One adapter, and code that changes the arrays behind its back.
NextExternal ==
    \/ Construct(1, NoFail)
    \/ SetParams(1, NoFail)
    \/ Read(1)
    \/ \E i \in 1..NumParams, x \in Val : MutateOptimizerArray(i, x)
    \/ \E i \in 1..NumParams, x \in Val : MutateCallerVector(i, x)

SpecExternal == Init /\ [][NextExternal]_vars

\* One adapter, and code that re-parameterises the wrapped model.
NextReparameterized ==
    \/ Construct(1, NoFail)
    \/ SetParams(1, NoFail)
    \/ Read(1)
    \/ \E n \in ParamCounts :
           \E nm \in {Names(n), Renamed(n)} : Reparameterize(n, nm)

SpecReparameterized == Init /\ [][NextReparameterized]_vars

----------------------------------------------------------------------------
(* Properties.                                                             *)

Live == heap[optimizer_array]
Snapshot(a) == dicts[_state[a]]
\* A snapshot as the caller sees it: the params entry by its contents.
View(d) == [k \in DOMAIN d |-> IF k = "params" THEN heap[d[k]] ELSE d[k]]
Keys(cg) ==
    {"log_likelihood", "log_prior", "params"}
    \cup (IF cg THEN {"grad_log_likelihood", "grad_log_prior"} ELSE {})
\* What the wrapped model reports now, at its live parameters.
Reported(k) ==
    CASE k = "log_likelihood" -> model_log_likelihood(Live)
      [] k = "log_prior" -> model_log_prior(Live, priors)
      [] k = "grad_log_likelihood" ->
            _transform_gradients(_log_likelihood_gradients(Live), Live)
      [] k = "grad_log_prior" ->
            LET g == _log_prior_gradients(Live, priors)
            IN _transform_gradients(
                   IF g.kind = "float"
                   THEN [i \in 1..num_params_transformed |-> g.v[1]]
                   ELSE g.v, Live)
      [] k = "params" -> Live
Consistent(a) ==
    View(Snapshot(a)) = [k \in Keys(_compute_grad[a]) |-> Reported(k)]
Wrote(a) ==
    result.op = "params.setter" /\ result.a = a /\ result.out = "ok"
Built(a) == result.op = "__init__" /\ result.a = a /\ result.out = "ok"
EvalRoutines ==
    {"log_likelihood", "log_prior", "_log_likelihood_gradients",
     "_log_prior_gradients", "_transform_gradients"}
Count(fn) == Cardinality({i \in 1..Len(calls) : calls[i].fn = fn})

\* C1: in every state reachable by adapter operations (construction, params
\* writes, reads, __getstate__, __setstate__) the snapshot holds every field
\* and each equals what the wrapped model reports at its live parameters.
C1_SnapshotConsistent == \A a \in Adapters : constructed[a] => Consistent(a)

\* C2: right after construction log_likelihood and log_prior read what the
\* wrapped model answers at its current parameters, priors assigned or not.
C2_ConstructionMatchesModel ==
    \A a \in Adapters :
        Built(a) =>
            /\ log_likelihood(a) = Got("ok", <<model_log_likelihood(Live)>>, <<>>)
            /\ log_prior(a) = Got("ok", <<model_log_prior(Live, priors)>>, <<>>)

C2_Witness ==
    /\ Built(1)
    /\ calls[1].fn = "assign_priors_to_gpy_model"
    /\ log_prior(1).out = "ok"
    /\ log_prior(1).val # <<0>>

\* C3: after params := V, reading params gives V and the wrapped model's live
\* array holds V.
C3_WriteReadRoundTrip ==
    \A a \in Adapters :
        Wrote(a) => /\ params(a) = Got("ok", result.val, <<>>)
                    /\ Live = result.val

C3_Witness ==
    /\ Wrote(1)
    /\ \E k \in 1..Len(result.val) : result.val[k] # 0
    /\ params(1).val = result.val

\* C4: a params write recomputes every field; and with a snapshot taken at
\* V0, writing another vector and then V0 again leaves a snapshot equal,
\* field by field, to the one taken.
C4_RevertReproducesSnapshot ==
    \A a \in Adapters :
        Wrote(a) =>
            /\ Consistent(a)
            /\ ( /\ held # None
                 /\ DOMAIN dicts[held] = Keys(_compute_grad[a])
                 /\ heap[dicts[held]["params"]] = result.val )
               => View(Snapshot(a)) = View(dicts[held])

C4_Witness ==
    /\ Wrote(1)
    /\ detour
    /\ held # None
    /\ held # _state[1]
    /\ _compute_grad[1]
    /\ DOMAIN dicts[held] = Keys(TRUE)
    /\ View(Snapshot(1)) = View(dicts[held])

\* C5: at every point where the caller can observe the adapter, also after a
\* wrapped-model call raised during a params write, the snapshot holds every
\* field: it is never empty or partially filled.
C5_SnapshotNeverPartial ==
    \A a \in Adapters :
        constructed[a] => DOMAIN Snapshot(a) = Keys(_compute_grad[a])

\* C6: when the wrapped model reports its prior gradient as one float s, the
\* vector handed to _transform_gradients has num_params entries, all s; a
\* gradient reported as an array is handed over as it is.
C6_ScalarPriorGradientBroadcast ==
    \A i \in 2..Len(calls) :
        ( /\ calls[i].fn = "_transform_gradients"
          /\ calls[i - 1].fn # "_log_likelihood_gradients" )
        => LET g == _log_prior_gradients(Live, priors)
           IN IF g.kind = "float"
              THEN /\ calls[i - 1].fn = "num_params_transformed"
                   /\ calls[i].arg = [j \in 1..num_params_transformed |-> g.v[1]]
              ELSE /\ calls[i - 1].fn = "_log_prior_gradients"
                   /\ calls[i].arg = g.v

C6_Witness ==
    /\ Built(1)
    /\ ~priors
    /\ num_params_transformed = NumParams
    /\ calls[Len(calls) - 1] =
           Call("_transform_gradients", [j \in 1..NumParams |-> 0])
    /\ grad_log_prior(1) = Got("ok", [j \in 1..NumParams |-> 0], <<>>)

\* C7: after __setstate__ with the snapshot __getstate__ gave for a source
\* adapter, every property of the receiving adapter reads as the source's.
C7_SetStateReproducesProperties ==
    result.op = "__setstate__" =>
        \A a \in Adapters :
            (constructed[a] /\ _state[a] = held) =>
                \A prop \in Props :
                    Property(result.a, prop) = Property(a, prop)

C7_Witness ==
    /\ result.op = "__setstate__"
    /\ result.a = 2
    /\ constructed[1]
    /\ _state[1] = held
    /\ _compute_grad[1]
    /\ ~_compute_grad[2]
    /\ Live # params(1).val
    /\ \A prop \in Props : Property(2, prop) = Property(1, prop)
    /\ grad_log_prior(2).out = "ok"

\* C8: reading a property invokes none of the wrapped model's evaluation
\* routines; they run only in construction and in a params write, each at
\* most once per evaluation (the transform once per gradient).
C8_ReadsInvokeNoEvaluation ==
    /\ \A a \in Adapters : \A prop \in Props :
           constructed[a] =>
               \A i \in 1..Len(Property(a, prop).calls) :
                   Property(a, prop).calls[i].fn \notin EvalRoutines
    /\ (\E fn \in EvalRoutines : Count(fn) > 0)
           => result.op \in {"__init__", "params.setter"}
    /\ \A fn \in EvalRoutines \ {"_transform_gradients"} : Count(fn) <= 1
    /\ Count("_transform_gradients")
           <= Count("_log_likelihood_gradients") + Count("_log_prior_gradients")

C8_Witness ==
    /\ Wrote(1)
    /\ _compute_grad[1]
    /\ Count("_transform_gradients") = 2
    /\ \A prop \in Props : Property(1, prop).out = "ok"
    /\ log_likelihood(1).calls = <<>>

\* C9: __getstate__ and __setstate__ leave the wrapped model's parameter
\* array as it is, and __getstate__ leaves every adapter's snapshot as it is
\* (a property read assigns nothing at all).
C9_OnlyParamsWriteMutates ==
    [][ /\ result'.op \in {"__getstate__", "__setstate__"}
            => /\ Live' = Live
               /\ UNCHANGED model_vars
        /\ result'.op = "__getstate__"
            => \A a \in Adapters :
                   constructed[a] => View(Snapshot(a))' = View(Snapshot(a))
      ]_vars

C9_Witness ==
    /\ result.op = "__setstate__"
    /\ result.a = 1
    /\ params(1).out = "ok"
    /\ params(1).val # Live

\* C10: a change made from outside to the wrapped model's array, or to the
\* array the caller assigned to params, leaves what reading params returns
\* as it was.
C10_SnapshotParamsAreACopy ==
    [][ result'.op = "external"
            => \A a \in Adapters : constructed[a] => params(a)' = params(a)
      ]_vars

C10_Witness ==
    /\ result.op = "external"
    /\ constructed[1]
    /\ binds_reference
    /\ value = optimizer_array
    /\ params(1).out = "ok"
    /\ params(1).val # Live

\* C11: when a wrapped-model call raises during construction or a params
\* write, the operation ends raising; the call that raised is the last call
\* the operation makes (it is not repeated and no later step runs); a failed
\* construction yields no adapter and a failed evaluation stores no params.
C11_ErrorsSurfaceUnhandled ==
    raised_call # 0 =>
        /\ result.op \in {"__init__", "params.setter"}
        /\ result.out = "raised"
        /\ Len(calls) = raised_call
        /\ result.op = "__init__" => ~constructed[result.a]
        /\ (result.op = "params.setter" /\ raised_call > 1)
               => ~HasKey(Snapshot(result.a), "params")

C11_Witness ==
    /\ result.op = "params.setter"
    /\ result.out = "raised"
    /\ raised_call > 2
    /\ calls[raised_call].fn = "_log_prior_gradients"
    /\ Count("_log_prior_gradients") = 1
    /\ Count("optimizer_array") = 0

\* The properties served from the snapshot.
Cached ==
    {"log_likelihood", "log_prior", "params", "grad_log_likelihood",
     "grad_log_prior"}

\* C12: a change of the wrapped model's parameters made past the params
\* setter raises nothing and leaves what log_likelihood, log_prior, params
\* and the gradients read exactly as it was (reads assign nothing, so this
\* lasts until the next write); after a params write the snapshot again
\* equals what the wrapped model reports.
C12_ExternalMutationLeavesCacheStale ==
    /\ [][ result'.op = "external"
               => \A a \in Adapters :
                      constructed[a] =>
                          \A prop \in Cached :
                              Property(a, prop)' = Property(a, prop)
         ]_vars
    /\ [](\A a \in Adapters : Wrote(a) => Consistent(a))

C12_Witness ==
    /\ result.op = "external"
    /\ constructed[1]
    /\ _compute_grad[1]
    /\ \A prop \in Cached : Property(1, prop).out = "ok"
    /\ \A k \in {"log_likelihood", "params", "grad_log_likelihood"} :
           Property(1, k).val # (IF k = "log_likelihood"
                                 THEN <<Reported(k)>> ELSE Reported(k))

\* C13: a construction with assign_priors set calls
\* assign_priors_to_gpy_model exactly once, as its first call, before
\* anything is read from the model; one without it never calls it; a
\* constructor that returns has run every routine of one evaluation exactly
\* once, on the model with its priors assigned; and no other operation calls
\* assign_priors_to_gpy_model.
C13_PriorsAssignedOnceBeforeEvaluation ==
    LET assign == "assign_priors_to_gpy_model"
        grads == {"_log_likelihood_gradients", "_log_prior_gradients"}
    IN /\ result.op = "__init__" =>
              /\ result.val[2] => /\ Count(assign) = 1
                                  /\ calls[1].fn = assign
              /\ ~result.val[2] => Count(assign) = 0
              /\ Built(result.a) =>
                     /\ \A fn \in {"log_likelihood", "log_prior",
                                   "optimizer_array"} : Count(fn) = 1
                     /\ \A fn \in grads :
                            Count(fn) = IF result.val[1] THEN 1 ELSE 0
                     /\ Count("_transform_gradients")
                            = IF result.val[1] THEN 2 ELSE 0
                     /\ calls[Len(calls)].fn = "optimizer_array"
                     /\ result.val[2] => priors
                     /\ Consistent(result.a)
       /\ result.op # "__init__" => Count(assign) = 0

C13_Witness ==
    /\ Built(1)
    /\ result.val = <<TRUE, TRUE>>
    /\ Len(calls) > 3
    /\ calls[1].fn = "assign_priors_to_gpy_model"
    /\ calls[2].fn = "log_likelihood"
    /\ calls[3].fn = "log_prior"
    /\ log_prior(1) = Got("ok", <<model_log_prior(Live, TRUE)>>, <<>>)
    /\ model_log_prior(Live, TRUE) # model_log_prior(Live, FALSE)

\* C14: num_params and param_names always read what the wrapped model
\* reports now; when code outside the adapter changes the model's parameter
\* count or names, they read the new values at once, while every property
\* served from the snapshot reads as before.
C14_CountAndNamesReadLive ==
    /\ [](\A a \in Adapters :
              constructed[a] =>
                  /\ num_params(a).out = "ok"
                  /\ num_params(a).val = <<num_params_transformed>>
                  /\ param_names(a).out = "ok"
                  /\ param_names(a).val = names)
    /\ [][ result'.op = "external"
               => \A a \in Adapters :
                      constructed[a] =>
                          /\ (num_params(a).val)' = <<num_params_transformed'>>
                          /\ (param_names(a).val)' = names'
                          /\ \A prop \in Cached :
                                 Property(a, prop)' = Property(a, prop)
         ]_vars

C14_Witness ==
    /\ result.op = "external"
    /\ constructed[1]
    /\ params(1).out = "ok"
    /\ num_params(1).val = <<num_params_transformed>>
    /\ num_params_transformed # Len(params(1).val)
    /\ param_names(1).val = names
    /\ names = Renamed(num_params_transformed)

\* C15: an adapter built with compute_grad false never has a gradient entry
\* in its snapshot, its constructions and params writes call none of the
\* gradient routines, its gradient properties fail with KeyError, and after
\* every evaluation that returns the snapshot holds exactly log_likelihood,
\* log_prior and params; an adapter built with compute_grad true has both
\* gradient entries after every evaluation that returns.
C15_GradientsOnlyWhenRequested ==
    LET grads == {"grad_log_likelihood", "grad_log_prior"}
        routines == {"_log_likelihood_gradients", "_log_prior_gradients",
                     "_transform_gradients"}
    IN /\ (result.op = "__init__" /\ ~result.val[1])
              => \A fn \in routines : Count(fn) = 0
       /\ \A a \in Adapters :
              constructed[a] =>
                  /\ ~_compute_grad[a] =>
                         /\ DOMAIN Snapshot(a) \cap grads = {}
                         /\ grad_log_likelihood(a) = Got("KeyError", <<>>, <<>>)
                         /\ grad_log_prior(a) = Got("KeyError", <<>>, <<>>)
                         /\ (result.op = "params.setter" /\ result.a = a)
                                => \A fn \in routines : Count(fn) = 0
                         /\ (Wrote(a) \/ Built(a))
                                => DOMAIN Snapshot(a)
                                       = {"log_likelihood", "log_prior",
                                          "params"}
                  /\ (_compute_grad[a] /\ (Wrote(a) \/ Built(a))) =>
                         /\ grads \subseteq DOMAIN Snapshot(a)
                         /\ grad_log_likelihood(a).out = "ok"
                         /\ grad_log_prior(a).out = "ok"

C15_Witness ==
    /\ Wrote(1)
    /\ ~_compute_grad[1]
    /\ DOMAIN Snapshot(1) = {"log_likelihood", "log_prior", "params"}
    /\ grad_log_likelihood(1).out = "KeyError"
    /\ grad_log_prior(1).out = "KeyError"
    /\ Len(calls) = 4

\* C16: a params write leaves the snapshot handed out by __getstate__
\* field by field as it was and binds the writing adapter to another
\* dictionary object; every other adapter, also one that shares the handed
\* out snapshot, reads each of its properties as before the write.
C16_HandedOutSnapshotUntouched ==
    [][ result'.op = "params.setter" =>
            /\ held # None =>
                   /\ held' # None
                   /\ View(dicts[held])' = View(dicts[held])
                   /\ _state'[result'.a] # held'
            /\ \A b \in Adapters \ {result'.a} :
                   constructed[b] =>
                       \A prop \in Props :
                           Property(b, prop)' = Property(b, prop)
      ]_vars

C16_Witness ==
    /\ Wrote(1)
    /\ held # None
    /\ constructed[2]
    /\ _state[2] = held
    /\ _state[1] # held
    /\ _compute_grad[1]
    /\ ~_compute_grad[2]
    /\ grad_log_likelihood(2).out = "ok"
    /\ params(2).val # params(1).val
    /\ log_likelihood(2).val # log_likelihood(1).val

\* C17: a params write assigns the model's array first (its only
\* assignment) and reads the array back last; once the array is assigned
\* the model holds the written vector, and every field the write stored in
\* the snapshot, and every gradient it handed to _transform_gradients, is
\* the model's answer at the written vector.
C17_WriteThenEvaluateAtNewParams ==
    result.op = "params.setter" =>
        LET n == Len(calls)
            V == result.val
        IN /\ calls[1] = Call("optimizer_array.setter", V)
           /\ \A i \in 2..n : calls[i].fn # "optimizer_array.setter"
           /\ \A i \in 1..n : calls[i].fn = "optimizer_array" => i = n
           /\ Wrote(result.a) => calls[n].fn = "optimizer_array"
           /\ \A i \in 2..n :
                  ( /\ calls[i].fn = "_transform_gradients"
                    /\ calls[i - 1].fn = "_log_likelihood_gradients" )
                  => calls[i].arg = _log_likelihood_gradients(V)
           /\ raised_call # 1 =>
                  /\ Live = V
                  /\ \A k \in DOMAIN Snapshot(result.a) :
                         View(Snapshot(result.a))[k] = Reported(k)

C17_Witness ==
    /\ Wrote(1)
    /\ _compute_grad[1]
    /\ held # None
    /\ HasKey(dicts[held], "params")
    /\ heap[dicts[held]["params"]] # result.val
    /\ calls[1].fn = "optimizer_array.setter"
    /\ calls[Len(calls)].fn = "optimizer_array"
    /\ log_likelihood(1).val = <<model_log_likelihood(result.val)>>
    /\ log_likelihood(1).val # <<dicts[held]["log_likelihood"]>>
    /\ grad_log_likelihood(1).val
           = _transform_gradients(_log_likelihood_gradients(result.val),
                                  result.val)

====
